---- MODULE Spec2Model ----
(***************************************************************************)
(* Model of src/app.js: the LINE group bot that silently records what the  *)
(* chairman (葛董), his delegates and people relaying his instructions say, *)
(* and answers a fixed set of query commands with a formatted report.      *)
(*                                                                         *)
(* Text is a sequence of tokens.  A token stands for one word of the       *)
(* source's literals (written in pinyin, the source text in the comment    *)
(* beside it), " " is a whitespace character and "|" the delimiter of the  *)
(* classifier's reply.  includes / trim / split / toLowerCase work on      *)
(* these sequences as the JavaScript methods work on characters.           *)
(***************************************************************************)
EXTENDS Naturals, Sequences, FiniteSets

\* ------------------------------------------------------------- bounds
MaxRecords == 2     \* rows the table can hold before an INSERT fails
MaxBatch == 2       \* events in one webhook delivery
MaxNameLen == 6     \* words and blanks in a display name
MaxContentLen == 5  \* words, blanks and delimiters in a classifier answer

\* ------------------------------------------------------- string helpers
EmptyText == << >>

IsSpace(t) == t = " "

\* String.prototype.trim
RECURSIVE TrimStart(_)
TrimStart(s) ==
  IF s # << >> /\ IsSpace(Head(s)) THEN TrimStart(Tail(s)) ELSE s

RECURSIVE TrimEnd(_)
TrimEnd(s) ==
  IF s # << >> /\ IsSpace(s[Len(s)]) THEN TrimEnd(SubSeq(s, 1, Len(s) - 1)) ELSE s

Trim(s) == TrimEnd(TrimStart(s))

\* String.prototype.includes
Includes(s, sub) ==
  \E i \in 0..(Len(s) - Len(sub)) : SubSeq(s, i + 1, i + Len(sub)) = sub

\* String.prototype.toLowerCase, token by token (Chinese words have no case)
LowerToken(t) ==
  CASE t \in {"Ge", "GE"} -> "ge"
    [] t \in {"Wang", "WANG"} -> "wang"
    [] t \in {"Ping", "PING"} -> "ping"
    [] t \in {"Cai", "CAI"} -> "cai"
    [] t \in {"Yi", "YI"} -> "yi"
    [] t \in {"Ying", "YING"} -> "ying"
    [] t \in {"Lin", "LIN"} -> "lin"
    [] t \in {"Xiu", "XIU"} -> "xiu"
    [] t \in {"Ling", "LING"} -> "ling"
    [] OTHER -> t

ToLowerCase(s) == [i \in DOMAIN s |-> LowerToken(s[i])]

\* String.prototype.split on a one-character delimiter: the fields, in order
RECURSIVE SplitFrom(_, _, _)
SplitFrom(s, delim, cur) ==
  IF s = << >> THEN <<cur>>
  ELSE IF Head(s) = delim THEN <<cur>> \o SplitFrom(Tail(s), delim, << >>)
  ELSE SplitFrom(Tail(s), delim, Append(cur, Head(s)))

Split(s, delim) == SplitFrom(s, delim, << >>)

\* -------------------------------------------------- isChairmanOrDelegate
\* '葛望平', '葛董', '董事長', 'Ge Wang Ping', 'GE WANG PING'
chairmanNames ==
  << <<"gewangping">>, <<"gedong">>, <<"dongshizhang">>,
     <<"Ge", " ", "Wang", " ", "Ping">>, <<"GE", " ", "WANG", " ", "PING">> >>

\* '蔡怡穎', '總經理', '林秀玲', '特助', 'Cai Yi Ying', 'Lin Xiu Ling'
delegateNames ==
  << <<"caiyiying">>, <<"zongjingli">>, <<"linxiuling">>, <<"tezhu">>,
     <<"Cai", " ", "Yi", " ", "Ying">>, <<"Lin", " ", "Xiu", " ", "Ling">> >>

NameMatches(displayName, name) ==
  \/ Includes(displayName, name)
  \/ Includes(ToLowerCase(displayName), ToLowerCase(name))

\* chairmanNames.some(...), delegateNames.some(...)
isChairman(displayName) ==
  \E i \in DOMAIN chairmanNames : NameMatches(displayName, chairmanNames[i])

isDelegate(displayName) ==
  \E i \in DOMAIN delegateNames : NameMatches(displayName, delegateNames[i])

\* the two lists tested in the other order
isChairmanOrDelegate_DelegateFirst(displayName) ==
  [ isRelevant |-> isChairman(displayName) \/ isDelegate(displayName),
    type |-> IF isDelegate(displayName) THEN "delegate"
             ELSE IF isChairman(displayName) THEN "chairman" ELSE "other",
    role |-> IF isDelegate(displayName) THEN "dailiren"
             ELSE IF isChairman(displayName) THEN "dongshizhang" ELSE "qita" ]

\* role: '董事長' / '代理人' / '其他'
isChairmanOrDelegate(displayName) ==
  [ isRelevant |-> isChairman(displayName) \/ isDelegate(displayName),
    type |-> IF isChairman(displayName) THEN "chairman"
             ELSE IF isDelegate(displayName) THEN "delegate" ELSE "other",
    role |-> IF isChairman(displayName) THEN "dongshizhang"
             ELSE IF isDelegate(displayName) THEN "dailiren" ELSE "qita" ]

\* ---------------------------------------------- containsChairmanKeywords
\* 葛董/董事長 + 指示 交辦 交代 要求 希望 務必 說 的意見 (認為), then
\* 完成 執行 繳交 處理 安排 準備, 要求完成 務必完成 希望完成 需要執行 必須執行
chairmanKeywords ==
  << <<"gedong", "zhishi">>, <<"gedong", "jiaoban">>, <<"gedong", "jiaodai">>,
     <<"gedong", "yaoqiu">>, <<"gedong", "xiwang">>, <<"gedong", "wubi">>,
     <<"gedong", "shuo">>, <<"gedong", "de", "yijian">>, <<"gedong", "renwei">>,
     <<"dongshizhang", "zhishi">>, <<"dongshizhang", "jiaoban">>,
     <<"dongshizhang", "jiaodai">>, <<"dongshizhang", "yaoqiu">>,
     <<"dongshizhang", "xiwang">>, <<"dongshizhang", "wubi">>,
     <<"dongshizhang", "shuo">>, <<"dongshizhang", "de", "yijian">>,
     <<"wancheng">>, <<"zhixing">>, <<"jiaojiao">>, <<"chuli">>, <<"anpai">>,
     <<"zhunbei">>,
     <<"yaoqiu", "wancheng">>, <<"wubi", "wancheng">>, <<"xiwang", "wancheng">>,
     <<"xuyao", "zhixing">>, <<"bixu", "zhixing">> >>

containsChairmanKeywords(message) ==
  \E i \in DOMAIN chairmanKeywords : Includes(message, chairmanKeywords[i])

\* --------------------------------------------------------- analyzeMessage
\* SQL NULL / JavaScript null: a value no text and no priority equals
Null == "NULL"
NullText == <<Null>>

\* the reply of the classifier: '發言', or '任務|任務描述|優先級'
StatementSentinel == <<"fayan">>      \* '發言'
TaskMarker == <<"renwu">>             \* '任務'
HighToken == <<"gao">>                \* '高'
LowToken == <<"di">>                  \* '低'

\* the system prompt chosen from speakerType (董事長發言分析助手 / 代理人發言分析助手)
SystemPrompt(speakerType) ==
  IF speakerType = "chairman" THEN "chairman_prompt" ELSE "delegate_prompt"

Speech == [type |-> "speech", taskDescription |-> NullText, priority |-> Null]

\* the parse with the field count tested against 2 instead of 3
ParseResponse_TwoFields(message, content) ==
  LET result == Trim(content)
      parts == Split(result, "|")
  IN IF result = StatementSentinel THEN Speech
     ELSE IF parts[1] = TaskMarker /\ Len(parts) >= 2
       THEN [ type |-> "task",
              taskDescription |-> IF parts[2] # EmptyText THEN parts[2] ELSE message,
              priority |-> IF Len(parts) >= 3 /\ Includes(parts[3], HighToken) THEN "high"
                           ELSE IF Len(parts) >= 3 /\ Includes(parts[3], LowToken) THEN "low"
                           ELSE "normal" ]
     ELSE Speech

\* the parse with the low token looked for before the high one
ParseResponse_LowFirst(message, content) ==
  LET result == Trim(content)
      parts == Split(result, "|")
  IN IF result = StatementSentinel THEN Speech
     ELSE IF parts[1] = TaskMarker /\ Len(parts) >= 3
       THEN [ type |-> "task",
              taskDescription |-> IF parts[2] # EmptyText THEN parts[2] ELSE message,
              priority |-> IF Includes(parts[3], LowToken) THEN "low"
                           ELSE IF Includes(parts[3], HighToken) THEN "high"
                           ELSE "normal" ]
     ELSE Speech

\* what analyzeMessage makes of response.choices[0].message.content
ParseResponse(message, content) ==
  LET result == Trim(content)
      parts == Split(result, "|")
  IN IF result = StatementSentinel THEN Speech
     ELSE IF parts[1] = TaskMarker /\ Len(parts) >= 3
       THEN [ type |-> "task",
              taskDescription |-> IF parts[2] # EmptyText THEN parts[2] ELSE message,
              priority |-> IF Includes(parts[3], HighToken) THEN "high"
                           ELSE IF Includes(parts[3], LowToken) THEN "low"
                           ELSE "normal" ]
     ELSE Speech

\* response: [ok |-> FALSE] when openai.chat.completions.create throws,
\* else [ok |-> TRUE, content |-> text]; the catch block returns speech
analyzeMessage(message, speakerType, response) ==
  IF response.ok THEN ParseResponse(message, response.content) ELSE Speech

\* ---------------------------------------------------------- recordMessage
\* the row INSERT INTO chairman_records adds: id by AUTOINCREMENT, created_at
\* by DEFAULT CURRENT_TIMESTAMP (processed_at, never read, is left out)
NewRow(rows, now, groupId, speakerName, messageContent, analysisResult, speakerInfo) ==
  [ id |-> Len(rows) + 1,
    group_id |-> groupId,
    speaker_name |-> speakerName,
    speaker_type |-> speakerInfo.type,
    speaker_role |-> speakerInfo.role,
    message_content |-> messageContent,
    record_type |-> analysisResult.type,
    task_description |-> analysisResult.taskDescription,
    priority |-> analysisResult.priority,
    created_at |-> now ]

\* INSERT OR REPLACE keyed on the speaker: the speaker's earlier row is lost
recordMessage_Replace(rows, now, groupId, speakerName, messageContent, analysisResult, speakerInfo) ==
  LET kept == SelectSeq(rows, LAMBDA r : r.speaker_name # speakerName)
  IN Append(kept, NewRow(rows, now, groupId, speakerName, messageContent,
                         analysisResult, speakerInfo))

\* INSERT OR REPLACE keyed on the group: the group's earlier row is lost
recordMessage_OnePerGroup(rows, now, groupId, speakerName, messageContent, analysisResult, speakerInfo) ==
  LET kept == SelectSeq(rows, LAMBDA r : r.group_id # groupId)
  IN Append(kept, NewRow(rows, now, groupId, speakerName, messageContent,
                         analysisResult, speakerInfo))

\* the table after the INSERT
recordMessage(rows, now, groupId, speakerName, messageContent, analysisResult, speakerInfo) ==
  Append(rows, NewRow(rows, now, groupId, speakerName, messageContent,
                      analysisResult, speakerInfo))

\* ------------------------------------------------------------- getRecords
\* the WHERE clause without the group_id test
RowMatches_AnyGroup(row, groupId, type, speakerFilter) ==
  /\ (type = "speech" => row.record_type = "speech")
  /\ (type = "task" => row.record_type = "task")
  /\ (speakerFilter = "chairman" => row.speaker_type = "chairman")
  /\ (speakerFilter = "delegate" => row.speaker_type = "delegate")
  /\ (speakerFilter = "messenger" => row.speaker_type = "messenger")

\* the WHERE clause built from the two filters
RowMatches(row, groupId, type, speakerFilter) ==
  /\ row.group_id = groupId
  /\ (type = "speech" => row.record_type = "speech")
  /\ (type = "task" => row.record_type = "task")
  /\ (speakerFilter = "chairman" => row.speaker_type = "chairman")
  /\ (speakerFilter = "delegate" => row.speaker_type = "delegate")
  /\ (speakerFilter = "messenger" => row.speaker_type = "messenger")

\* ORDER BY created_at ASC
OrderedDesc_Asc(rs) ==
  \A i, j \in DOMAIN rs : i < j => rs[i].created_at <= rs[j].created_at

\* ORDER BY created_at DESC
OrderedDesc(rs) ==
  \A i, j \in DOMAIN rs : i < j => rs[i].created_at >= rs[j].created_at

\* every arrangement of the rows at the positions in S
RECURSIVE Arrangements(_, _)
Arrangements(rows, S) ==
  IF S = {} THEN { << >> }
  ELSE UNION { { <<rows[i]>> \o rest : rest \in Arrangements(rows, S \ {i}) } : i \in S }

\* the row lists db.all may hand back: the selected rows, newest first; SQL
\* leaves the order of rows with equal created_at to the engine
getRecords(rows, groupId, type, speakerFilter) ==
  LET selected == { i \in DOMAIN rows : RowMatches(rows[i], groupId, type, speakerFilter) }
  IN { rs \in Arrangements(rows, selected) : OrderedDesc(rs) }

\* ----------------------------------------------------------- formatRecords
\* records.filter(r => r[column] === value).length
CountWhere(records, column, value) ==
  Cardinality({ i \in DOMAIN records : records[i][column] = value })

\* one numbered entry of the report
FormatEntry(record, index) ==
  [ index |-> index,
    typeIcon |-> IF record.record_type = "task" THEN "pin" ELSE "bubble",
    speakerIcon |-> IF record.speaker_type = "chairman" THEN "crown"
                    ELSE IF record.speaker_type = "delegate" THEN "person"
                    ELSE "megaphone",
    date |-> record.created_at,
    speaker |-> <<record.speaker_role, record.speaker_name>>,
    task |-> IF record.record_type = "task" THEN record.task_description ELSE NullText,
    priorityIcon |-> IF record.record_type # "task" THEN Null
                     ELSE IF record.priority = "high" THEN "red"
                     ELSE IF record.priority = "low" THEN "green"
                     ELSE IF record.priority = "normal" THEN "yellow" ELSE "",
    priorityLabel |-> IF record.record_type # "task" THEN Null
                      ELSE IF record.priority = "high" THEN "gao"
                      ELSE IF record.priority = "low" THEN "di" ELSE "zhong",
    content |-> record.message_content ]

\* the reply text: the fixed message for no rows, else the entries and the
\* statistics block (the messenger count is printed only when positive)
formatRecords(records) ==
  IF Len(records) = 0
  THEN [ total |-> 0, entries |-> << >>, stats |-> << >> ]
  ELSE [ total |-> Len(records),
         entries |-> [i \in DOMAIN records |-> FormatEntry(records[i], i)],
         stats |-> << CountWhere(records, "record_type", "speech"),
                      CountWhere(records, "record_type", "task"),
                      CountWhere(records, "speaker_type", "chairman"),
                      CountWhere(records, "speaker_type", "delegate") >>
                   \o (IF CountWhere(records, "speaker_type", "messenger") > 0
                       THEN << CountWhere(records, "speaker_type", "messenger") >>
                       ELSE << >>) ]

\* ------------------------------------------------------------ handleEvent
\* the query commands and the getRecords filters each is bound to:
\* 記錄列表 全部記錄; 任務記錄 任務列表; 發言記錄; 葛董記錄 董事長記錄;
\* 代理人記錄 總經理記錄 特助記錄; 轉達記錄 其他人記錄
NoCommand == << >>

\* the chain with the task commands bound to the 'speech' filter
QueryCommand_TaskAsSpeech(message) ==
  IF message \in { <<"jilu", "liebiao">>, <<"quanbu", "jilu">> }
    THEN <<"all", "all">>
  ELSE IF message \in { <<"renwu", "jilu">>, <<"renwu", "liebiao">>, <<"fayan", "jilu">> }
    THEN <<"speech", "all">>
  ELSE IF message \in { <<"gedong", "jilu">>, <<"dongshizhang", "jilu">> }
    THEN <<"all", "chairman">>
  ELSE IF message \in { <<"dailiren", "jilu">>, <<"zongjingli", "jilu">>, <<"tezhu", "jilu">> }
    THEN <<"all", "delegate">>
  ELSE IF message \in { <<"zhuanda", "jilu">>, <<"qitaren", "jilu">> }
    THEN <<"all", "messenger">>
  ELSE << >>

QueryCommand(message) ==
  IF message \in { <<"jilu", "liebiao">>, <<"quanbu", "jilu">> }
    THEN <<"all", "all">>
  ELSE IF message \in { <<"renwu", "jilu">>, <<"renwu", "liebiao">> }
    THEN <<"task", "all">>
  ELSE IF message = <<"fayan", "jilu">>
    THEN <<"speech", "all">>
  ELSE IF message \in { <<"gedong", "jilu">>, <<"dongshizhang", "jilu">> }
    THEN <<"all", "chairman">>
  ELSE IF message \in { <<"dailiren", "jilu">>, <<"zongjingli", "jilu">>, <<"tezhu", "jilu">> }
    THEN <<"all", "delegate">>
  ELSE IF message \in { <<"zhuanda", "jilu">>, <<"qitaren", "jilu">> }
    THEN <<"all", "messenger">>
  ELSE NoCommand

\* the relay path recording under the delegate's type and role
delegateInfo_Delegate == [isRelevant |-> TRUE, type |-> "delegate", role |-> "dailiren"]

\* the relay path recording under the speakerInfo of the name: 'other', '其他'
delegateInfo_Other == [isRelevant |-> TRUE, type |-> "other", role |-> "qita"]

\* the speakerInfo of the relay path: type 'messenger', role '轉達者'
delegateInfo == [isRelevant |-> TRUE, type |-> "messenger", role |-> "zhuandazhe"]

\* the branch with the keyword test dropped: every other speaker is a relay
Dispatch_RelayAll(speakerInfo, hasChairmanKeywords) ==
  IF speakerInfo.isRelevant
    THEN [record |-> TRUE, speakerType |-> speakerInfo.type, speakerInfo |-> speakerInfo]
  ELSE [record |-> TRUE, speakerType |-> "delegate",
        speakerInfo |-> [isRelevant |-> TRUE, type |-> "messenger", role |-> "zhuandazhe"]]

\* the two branches in the other order: a relay keyword decides first
Dispatch_KeywordFirst(speakerInfo, hasChairmanKeywords) ==
  IF hasChairmanKeywords
    THEN [record |-> TRUE, speakerType |-> "delegate", speakerInfo |-> delegateInfo]
  ELSE IF speakerInfo.isRelevant
    THEN [record |-> TRUE, speakerType |-> speakerInfo.type, speakerInfo |-> speakerInfo]
  ELSE [record |-> FALSE, speakerType |-> "none", speakerInfo |-> speakerInfo]

\* the if / else if / (nothing) after the profile lookup: what analyzeMessage
\* and recordMessage are called with, or that the message is ignored
Dispatch(speakerInfo, hasChairmanKeywords) ==
  IF speakerInfo.isRelevant
    THEN [record |-> TRUE, speakerType |-> speakerInfo.type, speakerInfo |-> speakerInfo]
  ELSE IF hasChairmanKeywords
    THEN [record |-> TRUE, speakerType |-> "delegate", speakerInfo |-> delegateInfo]
  ELSE [record |-> FALSE, speakerType |-> "none", speakerInfo |-> speakerInfo]

\* ------------------------------------------------- the inputs enumerated
Groups == {"G1", "G2"}

\* client.getProfile(userId).displayName for the members of the groups:
\* 葛望平, 蔡怡穎 特助, 小明
DisplayName(userId) ==
  CASE userId = "U1" -> <<"gewangping">>
    [] userId = "U2" -> <<"caiyiying", " ", "tezhu">>
    [] OTHER -> <<"xiaoming">>

PlainText == <<"tianqi", "bucuo">>                    \* 天氣不錯
RelayText == <<" ", "gedong", "shuo", "kaihui", " ">>  \* ' 葛董說開會 '
BlankText == <<" ">>                                  \* ' '

CommandTexts ==
  { <<"jilu", "liebiao">>, <<"quanbu", "jilu">>, <<"renwu", "jilu">>,
    <<"renwu", "liebiao">>, <<"fayan", "jilu">>, <<"gedong", "jilu">>,
    <<"dongshizhang", "jilu">>, <<"dailiren", "jilu">>, <<"zongjingli", "jilu">>,
    <<"tezhu", "jilu">>, <<"zhuanda", "jilu">>, <<"qitaren", "jilu">>,
    <<" ", "renwu", "jilu", " ">> }

Event(type, messageType, text, sourceType, groupId, userId) ==
  [ type |-> type, messageType |-> messageType, text |-> text,
    sourceType |-> sourceType, groupId |-> groupId, userId |-> userId ]

GroupText(text, groupId, userId) ==
  Event("message", "text", text, "group", groupId, userId)

OrdinaryEvents ==
  { GroupText(BlankText, "G1", "U1"), GroupText(RelayText, "G2", "U2"),
    GroupText(RelayText, "G1", "U3"), GroupText(PlainText, "G2", "U3") }

CommandEvents ==
  { GroupText(text, "G1", "U3") : text \in CommandTexts }
    \cup { GroupText(<<"gedong", "jilu">>, "G2", "U1"),
           GroupText(<<"renwu", "liebiao">>, "G2", "U2") }

IgnoredEvents ==
  { Event("message", "sticker", <<"renwu", "jilu">>, "group", "G1", "U1"),
    Event("follow", "none", RelayText, "group", "G1", "U1"),
    Event("message", "text", <<"renwu", "jilu">>, "user", "none", "U1"),
    Event("message", "text", RelayText, "room", "none", "U1") }

SampleEvents == OrdinaryEvents \cup CommandEvents \cup IgnoredEvents

\* the events delivered together with others in one request
ConcurrentEvents ==
  << GroupText(BlankText, "G1", "U1"), GroupText(RelayText, "G1", "U3"),
     Event("message", "sticker", <<"renwu", "jilu">>, "group", "G1", "U1") >>

\* what the classifier may answer: '發言' with a line break after it, a task
\* triple, a triple with an empty description, two fields only
Responses ==
  { [ok |-> FALSE, content |-> << >>],
    [ok |-> TRUE, content |-> <<"fayan", " ">>],
    [ok |-> TRUE, content |-> <<"renwu", "|", "zhunbei", "baogao", "|", "gao">>],
    [ok |-> TRUE, content |-> <<"renwu", "|", "|", "di">>],
    [ok |-> TRUE, content |-> <<"renwu", "|", "zhunbei", "baogao">>] }

\* ------------------------------------------------------------------ state
VARIABLES
  store,      \* the rows of chairman_records, in insertion order
  clock,      \* CURRENT_TIMESTAMP at the newest row, in seconds since the first
  event,      \* event[p]: the event handleEvent p was called with
  pc,         \* pc[p]: the await handleEvent p is suspended at
  local,      \* local[p]: the local constants of handleEvent p, until it returns
  calls,      \* calls[p]: the external calls handleEvent p has made
  outcome,    \* outcome[p]: how the promise of handleEvent p settled
  res,        \* the HTTP response of the webhook request in flight
  arg,        \* the arguments a function is called with on its own
  ret         \* what that call returned

vars == <<store, clock, event, pc, local, calls, outcome, res, arg, ret>>

Procs == 1..MaxBatch

NoEvent == Event("none", "none", << >>, "none", "none", "none")

NoResponse == [ok |-> FALSE, content |-> << >>]

NoArg == [none |-> TRUE]

NoRet == [none |-> TRUE]

NoLocal ==
  [ message |-> << >>, records |-> << >>, replyText |-> formatRecords(<< >>),
    speakerName |-> << >>, speakerInfo |-> isChairmanOrDelegate(<< >>),
    hasChairmanKeywords |-> FALSE, speakerType |-> "none", prompt |-> "none",
    response |-> NoResponse, analysisResult |-> Speech ]

Init ==
  /\ store = << >>
  /\ clock = 0
  /\ event = [p \in Procs |-> NoEvent]
  /\ pc = [p \in Procs |-> "idle"]
  /\ local = [p \in Procs |-> NoLocal]
  /\ calls = [p \in Procs |-> << >>]
  /\ outcome = [p \in Procs |-> "none"]
  /\ res = "none"
  /\ arg = NoArg
  /\ ret = NoRet

\* --------------------------------------------------------------- actions
Settled(p) == pc[p] \in {"idle", "done"}

\* handleEvent without the test of event.source.type
Begin_AnySource(e) ==
  LET message == Trim(e.text)
  IN IF e.type # "message" \/ e.messageType # "text"
       THEN [pc |-> "done", outcome |-> "null", calls |-> << >>, local |-> NoLocal]
     ELSE IF QueryCommand(message) # NoCommand
       THEN [pc |-> "getRecords", outcome |-> "pending", calls |-> <<"getRecords">>,
             local |-> [NoLocal EXCEPT !.message = message]]
     ELSE [pc |-> "getProfile", outcome |-> "pending", calls |-> <<"getProfile">>,
           local |-> [NoLocal EXCEPT !.message = message]]

\* handleEvent up to its first await: the two early returns, then the chain
\* of command tests, then client.getProfile
Begin(e) ==
  LET message == Trim(e.text)
  IN IF e.type # "message" \/ e.messageType # "text"
       THEN [pc |-> "done", outcome |-> "null", calls |-> << >>, local |-> NoLocal]
     ELSE IF e.sourceType # "group"
       THEN [pc |-> "done", outcome |-> "null", calls |-> << >>,
             local |-> [NoLocal EXCEPT !.message = message]]
     ELSE IF QueryCommand(message) # NoCommand
       THEN [pc |-> "getRecords", outcome |-> "pending", calls |-> <<"getRecords">>,
             local |-> [NoLocal EXCEPT !.message = message]]
     ELSE [pc |-> "getProfile", outcome |-> "pending", calls |-> <<"getProfile">>,
           local |-> [NoLocal EXCEPT !.message = message]]

\* the batches a webhook request may carry: any one event, or up to MaxBatch
\* of the events delivered together
Increasing(idx) == \A i, j \in DOMAIN idx : i < j => idx[i] < idx[j]

Batches ==
  { <<e>> : e \in SampleEvents }
    \cup UNION { { [i \in 1..n |-> ConcurrentEvents[idx[i]]] :
                    idx \in { f \in [1..n -> DOMAIN ConcurrentEvents] : Increasing(f) } } :
                n \in 2..MaxBatch }

\* app.post('/webhook'): req.body.events.map(handleEvent)
Webhook ==
  /\ res # "pending"
  /\ \A p \in Procs : pc[p] = "idle"
  /\ \E batch \in Batches :
       /\ event' = [p \in Procs |-> IF p <= Len(batch) THEN batch[p] ELSE NoEvent]
       /\ pc' = [p \in Procs |-> IF p <= Len(batch) THEN Begin(batch[p]).pc ELSE "idle"]
       /\ local' = [p \in Procs |-> IF p <= Len(batch) THEN Begin(batch[p]).local ELSE NoLocal]
       /\ calls' = [p \in Procs |-> IF p <= Len(batch) THEN Begin(batch[p]).calls ELSE << >>]
       /\ outcome' = [p \in Procs |-> IF p <= Len(batch) THEN Begin(batch[p]).outcome ELSE "none"]
  /\ res' = "pending"
  /\ UNCHANGED <<store, clock, arg, ret>>

\* the catch block of handleEvent, and the return at its end
ReturnNull(p) ==
  /\ pc' = [pc EXCEPT ![p] = "done"]
  /\ outcome' = [outcome EXCEPT ![p] = "null"]
  /\ local' = [local EXCEPT ![p] = NoLocal]

\* db.all calls back with the rows: formatRecords, client.replyMessage
GetRecordsOk(p) ==
  /\ pc[p] = "getRecords"
  /\ LET cmd == QueryCommand(local[p].message)
     IN \E records \in getRecords(store, event[p].groupId, cmd[1], cmd[2]) :
          local' = [local EXCEPT ![p].records = records,
                                 ![p].replyText = formatRecords(records)]
  /\ calls' = [calls EXCEPT ![p] = Append(@, "replyMessage")]
  /\ pc' = [pc EXCEPT ![p] = "replyMessage"]
  /\ UNCHANGED <<store, clock, event, outcome, res, arg, ret>>

\* db.all calls back with an error: getRecords rejects, caught
GetRecordsFail(p) ==
  /\ pc[p] = "getRecords"
  /\ ReturnNull(p)
  /\ UNCHANGED <<store, clock, event, calls, res, arg, ret>>

\* the promise of client.replyMessage, returned without await, resolves
ReplyMessageOk(p) ==
  /\ pc[p] = "replyMessage"
  /\ pc' = [pc EXCEPT ![p] = "done"]
  /\ outcome' = [outcome EXCEPT ![p] = "replied"]
  /\ local' = [local EXCEPT ![p] = NoLocal]
  /\ UNCHANGED <<store, clock, event, calls, res, arg, ret>>

\* ... or rejects: the try block was left at the return, nothing catches it
ReplyMessageFail(p) ==
  /\ pc[p] = "replyMessage"
  /\ pc' = [pc EXCEPT ![p] = "done"]
  /\ outcome' = [outcome EXCEPT ![p] = "rejected"]
  /\ local' = [local EXCEPT ![p] = NoLocal]
  /\ UNCHANGED <<store, clock, event, calls, res, arg, ret>>

\* analyzeMessage called without await: recordMessage starts at once, with the
\* pending promise as its analysisResult (type, taskDescription, priority undefined)
GetProfileOk_NoAwait(p) ==
  /\ pc[p] = "getProfile"
  /\ LET speakerName == DisplayName(event[p].userId)
         speakerInfo == isChairmanOrDelegate(speakerName)
         hasChairmanKeywords == containsChairmanKeywords(local[p].message)
         d == Dispatch(speakerInfo, hasChairmanKeywords)
     IN IF d.record
        THEN /\ local' = [local EXCEPT ![p].speakerName = speakerName,
                                       ![p].speakerInfo = d.speakerInfo,
                                       ![p].hasChairmanKeywords = hasChairmanKeywords,
                                       ![p].speakerType = d.speakerType,
                                       ![p].prompt = SystemPrompt(d.speakerType),
                                       ![p].analysisResult =
                                         [type |-> Null, taskDescription |-> NullText,
                                          priority |-> Null]]
             /\ calls' = [calls EXCEPT ![p] = @ \o <<"classifier", "recordMessage">>]
             /\ pc' = [pc EXCEPT ![p] = "recordMessage"]
             /\ UNCHANGED outcome
        ELSE /\ ReturnNull(p)
             /\ UNCHANGED calls
  /\ UNCHANGED <<store, clock, event, res, arg, ret>>

\* client.getProfile resolves: isChairmanOrDelegate, containsChairmanKeywords,
\* then analyzeMessage calls the classifier, or the message is ignored
GetProfileOk(p) ==
  /\ pc[p] = "getProfile"
  /\ LET speakerName == DisplayName(event[p].userId)
         speakerInfo == isChairmanOrDelegate(speakerName)
         hasChairmanKeywords == containsChairmanKeywords(local[p].message)
         d == Dispatch(speakerInfo, hasChairmanKeywords)
     IN IF d.record
        THEN /\ local' = [local EXCEPT ![p].speakerName = speakerName,
                                       ![p].speakerInfo = d.speakerInfo,
                                       ![p].hasChairmanKeywords = hasChairmanKeywords,
                                       ![p].speakerType = d.speakerType,
                                       ![p].prompt = SystemPrompt(d.speakerType)]
             /\ calls' = [calls EXCEPT ![p] = Append(@, "classifier")]
             /\ pc' = [pc EXCEPT ![p] = "classifier"]
             /\ UNCHANGED outcome
        ELSE /\ ReturnNull(p)
             /\ UNCHANGED calls
  /\ UNCHANGED <<store, clock, event, res, arg, ret>>

\* client.getProfile rejects and the handler goes on with a placeholder name
GetProfileFail_Unknown(p) ==
  /\ pc[p] = "getProfile"
  /\ LET speakerName == <<"unknown">>
         speakerInfo == isChairmanOrDelegate(speakerName)
         hasChairmanKeywords == containsChairmanKeywords(local[p].message)
         d == Dispatch(speakerInfo, hasChairmanKeywords)
     IN IF d.record
        THEN /\ local' = [local EXCEPT ![p].speakerName = speakerName,
                                       ![p].speakerInfo = d.speakerInfo,
                                       ![p].hasChairmanKeywords = hasChairmanKeywords,
                                       ![p].speakerType = d.speakerType,
                                       ![p].prompt = SystemPrompt(d.speakerType)]
             /\ calls' = [calls EXCEPT ![p] = Append(@, "classifier")]
             /\ pc' = [pc EXCEPT ![p] = "classifier"]
             /\ UNCHANGED outcome
        ELSE /\ ReturnNull(p)
             /\ UNCHANGED calls
  /\ UNCHANGED <<store, clock, event, res, arg, ret>>

\* client.getProfile rejects, caught
GetProfileFail(p) ==
  /\ pc[p] = "getProfile"
  /\ ReturnNull(p)
  /\ UNCHANGED <<store, clock, event, calls, res, arg, ret>>

\* the classifier answers or throws; analyzeMessage returns; recordMessage
\* starts the INSERT
ClassifierReturn(p) ==
  /\ pc[p] = "classifier"
  /\ \E response \in Responses :
       local' = [local EXCEPT ![p].response = response,
                              ![p].analysisResult =
                                analyzeMessage(local[p].message, local[p].speakerType, response)]
  /\ calls' = [calls EXCEPT ![p] = Append(@, "recordMessage")]
  /\ pc' = [pc EXCEPT ![p] = "recordMessage"]
  /\ UNCHANGED <<store, clock, event, outcome, res, arg, ret>>

\* CURRENT_TIMESTAMP when a row is written: the second of the row before it,
\* or a later one (seconds in which no row is written are not counted)
Now == IF store = << >> THEN {clock} ELSE {clock, clock + 1}

\* the INSERT made to wait until no other handler of the request is in flight
RecordMessageOk_Exclusive(p) ==
  /\ pc[p] = "recordMessage"
  /\ \A q \in Procs \ {p} : Settled(q)
  /\ Len(store) < MaxRecords
  /\ \E now \in Now :
       /\ store' = recordMessage(store, now, event[p].groupId, local[p].speakerName,
                                 local[p].message, local[p].analysisResult,
                                 local[p].speakerInfo)
       /\ clock' = now
  /\ ReturnNull(p)
  /\ UNCHANGED <<event, calls, res, arg, ret>>

\* the INSERT followed by a reply that acknowledges the record
RecordMessageOk_Ack(p) ==
  /\ pc[p] = "recordMessage"
  /\ Len(store) < MaxRecords
  /\ \E now \in Now :
       /\ store' = recordMessage(store, now, event[p].groupId, local[p].speakerName,
                                 local[p].message, local[p].analysisResult,
                                 local[p].speakerInfo)
       /\ clock' = now
  /\ pc' = [pc EXCEPT ![p] = "replyMessage"]
  /\ calls' = [calls EXCEPT ![p] = Append(@, "replyMessage")]
  /\ UNCHANGED <<event, local, outcome, res, arg, ret>>

\* db.run calls back without error
RecordMessageOk(p) ==
  /\ pc[p] = "recordMessage"
  /\ Len(store) < MaxRecords
  /\ \E now \in Now :
       /\ store' = recordMessage(store, now, event[p].groupId, local[p].speakerName,
                                 local[p].message, local[p].analysisResult,
                                 local[p].speakerInfo)
       /\ clock' = now
  /\ ReturnNull(p)
  /\ UNCHANGED <<event, calls, res, arg, ret>>

\* db.run calls back with an error: recordMessage rejects, caught
RecordMessageFail(p) ==
  /\ pc[p] = "recordMessage"
  /\ ReturnNull(p)
  /\ UNCHANGED <<store, clock, event, calls, res, arg, ret>>

\* Promise.all rejects as soon as one handleEvent does: res.status(500)
Respond500 ==
  /\ res = "pending"
  /\ \E p \in Procs : outcome[p] = "rejected"
  /\ res' = "500"
  /\ UNCHANGED <<store, clock, event, pc, local, calls, outcome, arg, ret>>

\* the request is over once every handleEvent has settled: res.json(result)
\* when none rejected
Finish ==
  /\ \A p \in Procs : Settled(p)
  /\ \E p \in Procs : pc[p] = "done"
  /\ IF \E p \in Procs : outcome[p] = "rejected" THEN res = "500" /\ res' = res
     ELSE res = "pending" /\ res' = "json"
  /\ event' = [p \in Procs |-> NoEvent]
  /\ pc' = [p \in Procs |-> "idle"]
  /\ local' = [p \in Procs |-> NoLocal]
  /\ calls' = [p \in Procs |-> << >>]
  /\ outcome' = [p \in Procs |-> "none"]
  /\ UNCHANGED <<store, clock, arg, ret>>

Next ==
  \/ Webhook
  \/ \E p \in Procs : GetRecordsOk(p)
  \/ \E p \in Procs : GetRecordsFail(p)
  \/ \E p \in Procs : ReplyMessageOk(p)
  \/ \E p \in Procs : ReplyMessageFail(p)
  \/ \E p \in Procs : GetProfileOk(p)
  \/ \E p \in Procs : GetProfileFail(p)
  \/ \E p \in Procs : ClassifierReturn(p)
  \/ \E p \in Procs : RecordMessageOk(p)
  \/ \E p \in Procs : RecordMessageFail(p)
  \/ Respond500
  \/ Finish

Spec == Init /\ [][Next]_vars

\* ------------------------------------- one handler whose calls all complete
\* the handler of the first event of a request, watched while the handlers of
\* the other events fail, reject or never come back
Observed == 1

\* the events of the requests that carry several: a statement of the
\* chairman, a relayed instruction, a query command, a delegate in another group
TogetherEvents ==
  { GroupText(BlankText, "G1", "U1"), GroupText(RelayText, "G1", "U3"),
    GroupText(<<"jilu", "liebiao">>, "G1", "U3"), GroupText(RelayText, "G2", "U2") }

TogetherBatches == UNION { [1..n -> TogetherEvents] : n \in 2..MaxBatch }

\* app.post('/webhook') for a request with several events, while the table
\* has room for a row of each
WebhookTogether ==
  /\ res # "pending"
  /\ \A p \in Procs : pc[p] = "idle"
  /\ \E batch \in TogetherBatches :
       /\ Len(store) + Len(batch) <= MaxRecords
       /\ event' = [p \in Procs |-> IF p <= Len(batch) THEN batch[p] ELSE NoEvent]
       /\ pc' = [p \in Procs |-> IF p <= Len(batch) THEN Begin(batch[p]).pc ELSE "idle"]
       /\ local' = [p \in Procs |-> IF p <= Len(batch) THEN Begin(batch[p]).local ELSE NoLocal]
       /\ calls' = [p \in Procs |-> IF p <= Len(batch) THEN Begin(batch[p]).calls ELSE << >>]
       /\ outcome' = [p \in Procs |-> IF p <= Len(batch) THEN Begin(batch[p]).outcome ELSE "none"]
  /\ res' = "pending"
  /\ UNCHANGED <<store, clock, arg, ret>>

\* the profile lookup and the INSERT of the observed handler do not fail
NextObserved ==
  \/ WebhookTogether
  \/ \E p \in Procs : GetRecordsOk(p)
  \/ \E p \in Procs : GetRecordsFail(p)
  \/ \E p \in Procs : ReplyMessageOk(p)
  \/ \E p \in Procs : ReplyMessageFail(p)
  \/ \E p \in Procs : GetProfileOk(p)
  \/ \E p \in Procs \ {Observed} : GetProfileFail(p)
  \/ \E p \in Procs : ClassifierReturn(p)
  \/ \E p \in Procs : RecordMessageOk(p)
  \/ \E p \in Procs \ {Observed} : RecordMessageFail(p)
  \/ Respond500
  \/ Finish

\* the calls of the observed handler come back; nothing is assumed of the
\* calls of the others
SpecObserved ==
  /\ Init
  /\ [][NextObserved]_vars
  /\ WF_vars(GetProfileOk(Observed))
  /\ WF_vars(ClassifierReturn(Observed))
  /\ WF_vars(RecordMessageOk(Observed))

\* ------------------------------------------- every external call succeeds
\* a request with several events arrives while the table is empty
WebhookFresh ==
  /\ store = << >>
  /\ WebhookTogether

\* db.all, client.replyMessage, client.getProfile and db.run all come back
\* without error
NextSucceed ==
  \/ WebhookFresh
  \/ \E p \in Procs : GetRecordsOk(p)
  \/ \E p \in Procs : ReplyMessageOk(p)
  \/ \E p \in Procs : GetProfileOk(p)
  \/ \E p \in Procs : ClassifierReturn(p)
  \/ \E p \in Procs : RecordMessageOk(p)
  \/ Finish

SpecSucceed == Init /\ [][NextSucceed]_vars

\* ------------------------------------- isChairmanOrDelegate on its own
\* no request has arrived
Quiet ==
  /\ store = << >>
  /\ clock = 0
  /\ event = [p \in Procs |-> NoEvent]
  /\ pc = [p \in Procs |-> "idle"]
  /\ local = [p \in Procs |-> NoLocal]
  /\ calls = [p \in Procs |-> << >>]
  /\ outcome = [p \in Procs |-> "none"]
  /\ res = "none"

\* the words display names are made of: 葛董, 特助, a blank, and the words of
\* 'Ge Wang Ping' in a case the list does not spell
NameTokens == {"gedong", "tezhu", " ", "ge", "WANG", "Ping"}

DisplayNames == UNION { [1..n -> NameTokens] : n \in 0..MaxNameLen }

InitSpeaker ==
  /\ Quiet
  /\ arg \in { [displayName |-> n] : n \in DisplayNames }
  /\ ret = NoRet

\* const speakerInfo = isChairmanOrDelegate(speakerName)
CallIsChairmanOrDelegate ==
  /\ ret = NoRet
  /\ ret' = isChairmanOrDelegate(arg.displayName)
  /\ UNCHANGED <<store, clock, event, pc, local, calls, outcome, res, arg>>

NextSpeaker == CallIsChairmanOrDelegate

SpecSpeaker == InitSpeaker /\ [][NextSpeaker]_vars

\* ------------------------------------------- analyzeMessage on its own
\* what the answers of the classifier are made of: 發言, 任務, the delimiter,
\* 高, 低, 報告 and a blank
ContentTokens == {"fayan", "renwu", "|", "gao", "di", "baogao", " "}

Contents == UNION { [1..n -> ContentTokens] : n \in 0..MaxContentLen }

\* the answers, and the call that throws
ParseResponses ==
  { [ok |-> TRUE, content |-> c] : c \in Contents } \cup { [ok |-> FALSE, content |-> << >>] }

\* the trimmed message texts: the empty text and 開會
ParseMessages == { << >>, <<"kaihui">> }

InitParse ==
  /\ Quiet
  /\ arg \in [ message : ParseMessages, speakerType : {"chairman", "delegate"},
               response : ParseResponses ]
  /\ ret = NoRet

\* const analysisResult = await analyzeMessage(message, speakerType, speakerName)
CallAnalyzeMessage ==
  /\ ret = NoRet
  /\ ret' = analyzeMessage(arg.message, arg.speakerType, arg.response)
  /\ UNCHANGED <<store, clock, event, pc, local, calls, outcome, res, arg>>

NextParse == CallAnalyzeMessage

SpecParse == InitParse /\ [][NextParse]_vars

\* ================================================================ claims
\* the query commands as the specification lists them, with the kind and
\* speaker filter each is bound to
CommandTable ==
  { <<<<"jilu", "liebiao">>, "all", "all">>, <<<<"quanbu", "jilu">>, "all", "all">>,
    <<<<"renwu", "jilu">>, "task", "all">>, <<<<"renwu", "liebiao">>, "task", "all">>,
    <<<<"fayan", "jilu">>, "speech", "all">>,
    <<<<"gedong", "jilu">>, "all", "chairman">>,
    <<<<"dongshizhang", "jilu">>, "all", "chairman">>,
    <<<<"dailiren", "jilu">>, "all", "delegate">>,
    <<<<"zongjingli", "jilu">>, "all", "delegate">>,
    <<<<"tezhu", "jilu">>, "all", "delegate">>,
    <<<<"zhuanda", "jilu">>, "all", "messenger">>,
    <<<<"qitaren", "jilu">>, "all", "messenger">> }

IsGroupText(e) ==
  e.type = "message" /\ e.messageType = "text" /\ e.sourceType = "group"

IsCommand(e, c) == IsGroupText(e) /\ Trim(e.text) = c[1]

IsOrdinary(e) == IsGroupText(e) /\ \A c \in CommandTable : Trim(e.text) # c[1]

\* handleEvent p takes the step
Stepped(p) == pc'[p] # pc[p]

\* the step appends exactly one row and leaves the others as they were
AppendsOne == Len(store') = Len(store) + 1 /\ SubSeq(store', 1, Len(store)) = store

NewestRow == store'[Len(store')]

\* ---- C1
\* the query returned: one reply, the report of the rows getRecords gives for
\* the sender's group and the command's filters; nothing recorded, no
\* profile lookup, no classifier call
C1_Replies(p, c) ==
  /\ pc'[p] = "replyMessage"
  /\ local'[p].records \in getRecords(store, event[p].groupId, c[2], c[3])
  /\ local'[p].replyText = formatRecords(local'[p].records)
  /\ calls'[p] = <<"getRecords", "replyMessage">>
  /\ store' = store

\* the query failed: nothing is sent
C1_NoReply(p) ==
  /\ pc'[p] = "done"
  /\ outcome'[p] = "null"
  /\ calls'[p] = <<"getRecords">>
  /\ store' = store

C1_Starts(p, c) ==
  pc[p] = "idle" /\ Stepped(p) /\ IsCommand(event'[p], c)
    => pc'[p] = "getRecords" /\ calls'[p] = <<"getRecords">> /\ store' = store

C1_Ends(p, c) ==
  pc[p] = "replyMessage" /\ Stepped(p) /\ IsCommand(event[p], c)
    => pc'[p] = "done" /\ calls'[p] = calls[p] /\ store' = store

\* C1 as stated: for every group text message whose trimmed text is a query
\* command, whoever sent it, handleEvent sends one reply whose text is
\* formatRecords(getRecords(groupId, kind, speaker)) with the command's
\* filters, appends no record and calls neither getProfile nor the classifier
C1_EveryCommandReplies ==
  [][\A p \in Procs : \A c \in CommandTable :
       /\ C1_Starts(p, c)
       /\ pc[p] = "getRecords" /\ Stepped(p) /\ IsCommand(event[p], c) => C1_Replies(p, c)
       /\ C1_Ends(p, c)]_vars

\* C1 amended: the same, provided the store query succeeds; when it fails
\* handleEvent sends no reply and ends in the no-op outcome
C1_CommandRepliesUnlessQueryFails ==
  [][\A p \in Procs : \A c \in CommandTable :
       /\ C1_Starts(p, c)
       /\ pc[p] = "getRecords" /\ Stepped(p) /\ IsCommand(event[p], c)
            => C1_Replies(p, c) \/ C1_NoReply(p)
       /\ C1_Ends(p, c)]_vars

\* a delegate asked for the task list of a group that has tasks
C1_Witness ==
  \E p \in Procs :
    /\ pc[p] = "replyMessage"
    /\ event[p] = GroupText(<<"renwu", "liebiao">>, "G2", "U2")
    /\ local[p].replyText.total >= 1
    /\ \E i \in DOMAIN store : store[i].group_id = "G2" /\ store[i].record_type = "task"

\* ---- C2
IsOther(e) == isChairmanOrDelegate(DisplayName(e.userId)).type = "other"

HasRelayKeyword(e) == containsChairmanKeywords(Trim(e.text))

\* C2: a non-command group text message from a speaker classified 'other',
\* with no relay keyword in it: no record appended, no classifier call, no
\* reply, and handleEvent ends in the no-op outcome
C2_UnrelatedIsIgnored ==
  [][\A p \in Procs :
       /\ pc[p] = "idle" /\ Stepped(p) /\ IsOrdinary(event'[p]) /\ IsOther(event'[p])
            /\ ~HasRelayKeyword(event'[p])
            => pc'[p] = "getProfile" /\ calls'[p] = <<"getProfile">>
       /\ pc[p] = "getProfile" /\ Stepped(p)
            /\ IsOrdinary(event[p]) /\ IsOther(event[p]) /\ ~HasRelayKeyword(event[p])
            => /\ pc'[p] = "done"
               /\ outcome'[p] = "null"
               /\ calls'[p] = <<"getProfile">>
               /\ store' = store]_vars

C2_Witness ==
  \E p \in Procs :
    /\ pc[p] = "done"
    /\ event[p] = GroupText(PlainText, "G2", "U3")
    /\ outcome[p] = "null"
    /\ calls[p] = <<"getProfile">>

\* ---- C3
\* C3: a non-command group text message from a speaker classified 'other'
\* that contains a relay keyword: the classifier is called with the delegate
\* prompt and, when the INSERT succeeds, exactly one record is appended, of
\* speaker type 'messenger' with role '轉達者'; no reply is sent
C3_RelayIsRecorded ==
  [][\A p \in Procs :
       Stepped(p) /\ IsOrdinary(event[p]) /\ IsOther(event[p]) /\ HasRelayKeyword(event[p])
       => /\ pc[p] = "getProfile"
               => \/ pc'[p] = "done" /\ calls'[p] = <<"getProfile">> /\ store' = store
                  \/ /\ pc'[p] = "classifier"
                     /\ local'[p].prompt = "delegate_prompt"
                     /\ local'[p].speakerName = DisplayName(event[p].userId)
                     /\ calls'[p] = <<"getProfile", "classifier">>
                     /\ store' = store
          /\ pc[p] = "classifier"
               => /\ pc'[p] = "recordMessage"
                  /\ calls'[p] = <<"getProfile", "classifier", "recordMessage">>
                  /\ store' = store
          /\ pc[p] = "recordMessage"
               => /\ pc'[p] = "done"
                  /\ outcome'[p] = "null"
                  /\ calls'[p] = <<"getProfile", "classifier", "recordMessage">>
                  /\ \/ store' = store
                     \/ /\ AppendsOne
                        /\ NewestRow.speaker_type = "messenger"
                        /\ NewestRow.speaker_role = "zhuandazhe"
                        /\ NewestRow.speaker_name = DisplayName(event[p].userId)
                        /\ NewestRow.group_id = event[p].groupId]_vars

C3_Witness ==
  \E p \in Procs :
    /\ pc[p] = "done"
    /\ event[p] = GroupText(RelayText, "G1", "U3")
    /\ calls[p] = <<"getProfile", "classifier", "recordMessage">>
    /\ store # << >>
    /\ store[Len(store)].speaker_type = "messenger"
    /\ store[Len(store)].speaker_name = <<"xiaoming">>

\* ---- C4
\* C4: whatever fails after command matching has begun (store query, reply
\* delivery, profile lookup, INSERT), handleEvent catches it: its promise
\* resolves, never rejects, and the request is not answered with an error
C4_HandleEventNeverRejects ==
  /\ \A p \in Procs : outcome[p] # "rejected"
  /\ res # "500"

\* ---- C5
\* the classifier threw, or its answer is neither the statement sentinel nor
\* a task-marker answer with at least three delimited fields
C5_Malformed(response) ==
  \/ ~response.ok
  \/ /\ Trim(response.content) # <<"fayan">>
     /\ ~ /\ Split(Trim(response.content), "|")[1] = <<"renwu">>
          /\ Len(Split(Trim(response.content), "|")) >= 3

C5_Degrades(p) ==
  pc[p] = "classifier" /\ Stepped(p)
    => /\ pc'[p] = "recordMessage"
       /\ outcome'[p] = "pending"
       /\ C5_Malformed(local'[p].response)
            => local'[p].analysisResult =
                 [type |-> "speech", taskDescription |-> NullText, priority |-> Null]

C5_AppendsStatement(p) ==
  /\ AppendsOne
  /\ NewestRow.record_type = "speech"
  /\ NewestRow.task_description = NullText
  /\ NewestRow.priority = Null
  /\ NewestRow.message_content = local[p].message
  /\ NewestRow.speaker_name = DisplayName(event[p].userId)

\* C5 as stated: when the classifier fails or answers out of format,
\* analyzeMessage returns a statement without description and priority, and
\* the message is still appended to the store as a statement record
C5_FailureStillAppends ==
  [][\A p \in Procs :
       /\ C5_Degrades(p)
       /\ pc[p] = "recordMessage" /\ C5_Malformed(local[p].response) /\ Stepped(p)
            => C5_AppendsStatement(p)]_vars

\* C5 amended: analyzeMessage returns the statement and handleEvent goes on
\* to recordMessage with it; the statement record is appended when the INSERT
\* succeeds (when it fails, nothing is appended)
C5_FailureStillRecords ==
  [][\A p \in Procs :
       /\ C5_Degrades(p)
       /\ pc[p] = "recordMessage" /\ C5_Malformed(local[p].response) /\ Stepped(p)
            => C5_AppendsStatement(p) \/ store' = store]_vars

\* the classifier threw on a delegate's message, which is on its way to the store
C5_Witness ==
  \E p \in Procs :
    /\ pc[p] = "recordMessage"
    /\ ~local[p].response.ok
    /\ local[p].speakerInfo.type = "delegate"
    /\ local[p].analysisResult.type = "speech"

\* ---- C6
C6_Present(text) == text # NullText /\ text # EmptyText

\* C6: every stored record is a task iff it has both a (non-empty)
\* description and a priority, and a statement iff it has neither
C6_KindIffFields ==
  \A i \in DOMAIN store :
    /\ store[i].record_type = "task"
         <=> C6_Present(store[i].task_description) /\ store[i].priority # Null
    /\ store[i].record_type = "speech"
         <=> store[i].task_description = NullText /\ store[i].priority = Null

\* ---- C7
\* C7: the message_content of a record is the text of the message that
\* produced it, exactly as the platform delivered it
C7_ContentIsRawText ==
  [][\A p \in Procs :
       pc[p] = "recordMessage" /\ Stepped(p) /\ Len(store') > Len(store)
         => NewestRow.message_content = event[p].text]_vars

\* ---- C8
\* C8: the store is append-only: every step leaves the rows present before
\* it in place and unchanged; a step of a query command leaves the store as
\* it was, and a step of an ordinary message adds at most one row
C8_AppendOnly ==
  [][/\ Len(store') >= Len(store)
     /\ SubSeq(store', 1, Len(store)) = store
     /\ \A p \in Procs :
          /\ Stepped(p) /\ (\E c \in CommandTable : IsCommand(event[p], c)) => store' = store
          /\ Stepped(p) /\ IsOrdinary(event[p]) => store' = store \/ AppendsOne]_vars

\* two records are stored and a query command has been answered
C8_Witness ==
  /\ Len(store) >= 2
  /\ \E p \in Procs :
       pc[p] = "done" /\ outcome[p] = "replied"
         /\ \E c \in CommandTable : IsCommand(event[p], c)

\* ---- C9
C9_Kinds == {"all", "speech", "task"}
C9_Speakers == {"all", "chairman", "delegate", "messenger"}

C9_Selected(g, k, s) ==
  { i \in DOMAIN store :
      /\ store[i].group_id = g
      /\ k = "all" \/ store[i].record_type = k
      /\ s = "all" \/ store[i].speaker_type = s }

\* C9: getRecords(g, k, s) returns exactly the stored records of group g
\* whose kind matches k and whose speaker category matches s, each once
C9_QueryIsExactFilter ==
  \A g \in Groups : \A k \in C9_Kinds : \A s \in C9_Speakers :
    LET returned == getRecords(store, g, k, s)
        selected == C9_Selected(g, k, s)
        expected == { store[i] : i \in selected }
    IN /\ returned # {}
       /\ \A rs \in returned :
            /\ { rs[j] : j \in DOMAIN rs } = expected
            /\ Len(rs) = Cardinality(selected)

\* both groups have records, of different speaker categories and kinds
C9_Witness ==
  \E i, j \in DOMAIN store :
    /\ store[i].group_id = "G1" /\ store[j].group_id = "G2"
    /\ store[i].speaker_type = "chairman" /\ store[j].speaker_type = "delegate"
    /\ store[i].record_type # store[j].record_type

\* ---- C10
\* C10: what getRecords returns is ordered by created_at descending, and two
\* runs of the same query on the same store return the same records with the
\* same created_at at every position (they differ at most in the order of
\* records with equal created_at)
C10_NewestFirstAndRepeatable ==
  \A g \in Groups : \A k \in C9_Kinds : \A s \in C9_Speakers :
    LET returned == getRecords(store, g, k, s)
    IN \A rs \in returned :
         /\ \A i \in DOMAIN rs : \A j \in DOMAIN rs :
              i < j => rs[i].created_at >= rs[j].created_at
         /\ \A again \in returned :
              /\ Len(again) = Len(rs)
              /\ { again[j] : j \in DOMAIN again } = { rs[j] : j \in DOMAIN rs }
              /\ \A j \in DOMAIN rs : again[j].created_at = rs[j].created_at

\* a query returned two records of different seconds, the later one first
C10_Witness ==
  \E p \in Procs :
    /\ pc[p] = "replyMessage"
    /\ Len(local[p].records) = 2
    /\ local[p].records[1].created_at > local[p].records[2].created_at
    /\ local[p].records[1].id > local[p].records[2].id

\* ---- C11
\* the message is one handleEvent records: a non-command group text from the
\* chairman or a delegate, or from anyone else with a relay keyword in it
C11_Qualifies(e) == IsOrdinary(e) /\ (~IsOther(e) \/ HasRelayKeyword(e))

\* the store holds the row of the event handler p was called with
C11_Recorded(p) ==
  \E i \in DOMAIN store :
    /\ store[i].group_id = event[p].groupId
    /\ store[i].speaker_name = DisplayName(event[p].userId)
    /\ store[i].message_content = Trim(event[p].text)

\* C11: a message that qualifies for recording and whose own calls come back
\* is eventually appended to the store, whatever the handlers of the other
\* events of the request do: fail, reject, or never come back
C11_OthersNeverBlock ==
  (pc[Observed] = "getProfile" /\ C11_Qualifies(event[Observed]))
    ~> (pc[Observed] = "done" /\ outcome[Observed] = "null" /\ C11_Recorded(Observed))

\* the observed message is recorded while another handler is still waiting
\* for its profile lookup
C11_Witness ==
  /\ pc[Observed] = "done"
  /\ C11_Qualifies(event[Observed])
  /\ C11_Recorded(Observed)
  /\ \E q \in Procs \ {Observed} : pc[q] = "getProfile"

\* ---- C12
\* handleEvent p has called client.replyMessage
C12_Replied(p) ==
  \/ pc[p] = "replyMessage"
  \/ outcome[p] \in {"replied", "rejected"}
  \/ \E i \in DOMAIN calls[p] : calls[p][i] = "replyMessage"

\* C12: a reply is sent only in answer to a query command: handleEvent never
\* calls the reply channel for an event that is not a group text message
\* whose trimmed text is a query command, whatever the outcome of that event
C12_ReplyOnlyToCommands ==
  \A p \in Procs :
    C12_Replied(p) => \E c \in CommandTable : IsCommand(event[p], c)

\* a delegate's message with a relay keyword went through the profile lookup,
\* the classifier and the INSERT, a row of it is stored, and no reply was sent
C12_Witness ==
  \E p \in Procs :
    /\ pc[p] = "done"
    /\ event[p] = GroupText(RelayText, "G2", "U2")
    /\ calls[p] = <<"getProfile", "classifier", "recordMessage">>
    /\ outcome[p] = "null"
    /\ \E i \in DOMAIN store : store[i].speaker_type = "delegate"

\* ---- C13
\* the spellings of one word that differ only in case
C13_CaseClasses ==
  { {"ge", "Ge", "GE"}, {"wang", "Wang", "WANG"}, {"ping", "Ping", "PING"},
    {"cai", "Cai", "CAI"}, {"yi", "Yi", "YI"}, {"ying", "Ying", "YING"},
    {"lin", "Lin", "LIN"}, {"xiu", "Xiu", "XIU"}, {"ling", "Ling", "LING"} }

C13_SameWord(a, b) == a = b \/ \E class \in C13_CaseClasses : a \in class /\ b \in class

\* alias occurs in name, letters compared without regard to case
C13_Contains(name, alias) ==
  \E i \in 0..(Len(name) - Len(alias)) :
    \A k \in 1..Len(alias) : C13_SameWord(name[i + k], alias[k])

C13_Principal(name) == \E i \in DOMAIN chairmanNames : C13_Contains(name, chairmanNames[i])

C13_Delegate(name) == \E i \in DOMAIN delegateNames : C13_Contains(name, delegateNames[i])

\* C13: a display name that contains a principal alias, compared without
\* regard to case, is classified 'chairman' and relevant even when a delegate
\* alias matches too; any other name is 'delegate' iff a delegate alias
\* matches, else 'other'; isRelevant is true iff the category is not 'other'
C13_PrincipalFirst ==
  ret # NoRet =>
    /\ C13_Principal(arg.displayName) => ret.type = "chairman" /\ ret.isRelevant
    /\ ~C13_Principal(arg.displayName) =>
         /\ ret.type = "delegate" <=> C13_Delegate(arg.displayName)
         /\ ~C13_Delegate(arg.displayName) => ret.type = "other"
    /\ ret.isRelevant <=> ret.type # "other"

\* '特助ge WANG Ping': a delegate alias, and a principal alias in another case
C13_Witness ==
  /\ arg = [displayName |-> <<"tezhu", "ge", " ", "WANG", " ", "Ping">>]
  /\ ret = [isRelevant |-> TRUE, type |-> "chairman", role |-> "dongshizhang"]

\* ---- C14
\* handleEvent p was called with an event that is not a text message or does
\* not come from a group
C14_NotGroupText(e) ==
  e # NoEvent /\ (e.type # "message" \/ e.messageType # "text" \/ e.sourceType # "group")

\* C14: an event that is not a text message, or that does not come from a
\* group, ends in the no-op outcome at once: no external call, no reply, no
\* record appended, even when its text is a query command or its sender the
\* chairman
C14_OutsideIsNoOp ==
  [][\A p \in Procs :
       C14_NotGroupText(event'[p])
         => /\ pc'[p] = "done"
            /\ outcome'[p] = "null"
            /\ calls'[p] = << >>
            /\ Stepped(p) => store' = store]_vars

\* '任務記錄' sent by the chairman in a one-to-one chat
C14_Witness ==
  \E p \in Procs :
    /\ event[p] = Event("message", "text", <<"renwu", "jilu">>, "user", "none", "U1")
    /\ QueryCommand(Trim(event[p].text)) # NoCommand
    /\ isChairmanOrDelegate(DisplayName(event[p].userId)).type = "chairman"
    /\ pc[p] = "done"
    /\ outcome[p] = "null"
    /\ calls[p] = << >>

\* ---- C15
\* the label paired with each category a record may have
C15_Label(category) ==
  CASE category = "chairman" -> "dongshizhang"     \* 董事長
    [] category = "delegate" -> "dailiren"         \* 代理人
    [] category = "messenger" -> "zhuandazhe"      \* 轉達者
    [] OTHER -> "none"

\* C15: every record's speaker category is chairman, delegate or messenger,
\* never 'other'; its role label is the one paired with that category; and
\* neither changes once the record is in the store
C15_CategoryFixed ==
  [][/\ \A i \in DOMAIN store' :
          /\ store'[i].speaker_type \in {"chairman", "delegate", "messenger"}
          /\ store'[i].speaker_role = C15_Label(store'[i].speaker_type)
     /\ \A i \in DOMAIN store :
          /\ i \in DOMAIN store'
          /\ store'[i].speaker_type = store[i].speaker_type
          /\ store'[i].speaker_role = store[i].speaker_role]_vars

\* a relayed message is stored, and a row after it
C15_Witness ==
  /\ Len(store) = 2
  /\ store[1].speaker_type = "messenger"
  /\ store[1].speaker_role = "zhuandazhe"
  /\ store[2].speaker_type \in {"chairman", "delegate"}

\* ---- C16
\* the lookup returned the display name and the message goes to the classifier
C16_Resolved(p) ==
  /\ pc'[p] = "classifier"
  /\ local'[p].speakerName = DisplayName(event[p].userId)

\* the pipeline is over: no classification kept, no classifier call, no
\* record, no reply, the no-op outcome
C16_Aborted(p) ==
  /\ pc'[p] = "done"
  /\ outcome'[p] = "null"
  /\ calls'[p] = <<"getProfile">>
  /\ local'[p] = NoLocal
  /\ store' = store

\* C16: when the profile lookup of a non-command group text message fails,
\* its pipeline ends silently: whenever handleEvent leaves the lookup without
\* the display name in hand, the classification is not used, the classifier
\* is not called, nothing is recorded or replied and the outcome is the no-op
C16_ProfileFailureIsSilent ==
  [][\A p \in Procs :
       pc[p] = "getProfile" /\ Stepped(p) => C16_Resolved(p) \/ C16_Aborted(p)]_vars

\* a message of the chairman, which a successful lookup would have sent to
\* the classifier, ended after the lookup alone
C16_Witness ==
  \E p \in Procs :
    /\ event[p] = GroupText(BlankText, "G1", "U1")
    /\ pc[p] = "done"
    /\ outcome[p] = "null"
    /\ calls[p] = <<"getProfile">>
    /\ store = << >>

\* ---- C17
\* the step is the one in which handleEvent p makes the call
C17_Starts(p, call) ==
  /\ \E i \in DOMAIN calls'[p] : calls'[p][i] = call
  /\ ~\E i \in DOMAIN calls[p] : calls[p][i] = call

\* C17: within one message's pipeline the profile lookup, the classification
\* of the speaker, the classifier call and the store write follow one another,
\* each over before the next begins: the classifier is called in the step in
\* which the lookup returns the name, the INSERT starts in the step in which
\* the classifier call returns or throws, and the store changes only when an
\* INSERT completes
C17_StepsInOrder ==
  [][/\ \A p \in Procs :
          /\ IsOrdinary(event'[p])
               => calls'[p] \in { <<"getProfile">>, <<"getProfile", "classifier">>,
                                  <<"getProfile", "classifier", "recordMessage">> }
          /\ C17_Starts(p, "classifier")
               => /\ pc[p] = "getProfile" /\ calls[p] = <<"getProfile">>
                  /\ pc'[p] = "classifier"
                  /\ local'[p].speakerName = DisplayName(event[p].userId)
                  /\ local'[p].speakerInfo.isRelevant
          /\ C17_Starts(p, "recordMessage")
               => /\ pc[p] = "classifier" /\ calls[p] = <<"getProfile", "classifier">>
                  /\ pc'[p] = "recordMessage"
                  /\ local'[p].analysisResult.type \in {"speech", "task"}
     /\ store' # store
          => \E p \in Procs :
               pc[p] = "recordMessage" /\ pc'[p] = "done"
                 /\ calls[p] = <<"getProfile", "classifier", "recordMessage">>]_vars

\* the classifier has answered with a task and the INSERT is under way
C17_Witness ==
  \E p \in Procs :
    /\ pc[p] = "recordMessage"
    /\ calls[p] = <<"getProfile", "classifier", "recordMessage">>
    /\ local[p].response.ok
    /\ local[p].analysisResult.type = "task"
    /\ local[p].speakerName = <<"gewangping">>

\* ---- C18
\* r without the blanks before its first and after its last non-blank
C18_Trimmed(r) ==
  LET solid == { i \in DOMAIN r : r[i] # " " }
  IN IF solid = {} THEN << >>
     ELSE SubSeq(r, CHOOSE i \in solid : \A j \in solid : i <= j,
                    CHOOSE i \in solid : \A j \in solid : i >= j)

C18_Bars(r) == { i \in DOMAIN r : r[i] = "|" }

\* the place of the k-th delimiter of r; 0 before the first field, Len(r) + 1
\* after the last
C18_Bar(r, k) ==
  IF k = 0 THEN 0
  ELSE IF k > Cardinality(C18_Bars(r)) THEN Len(r) + 1
  ELSE CHOOSE i \in C18_Bars(r) : Cardinality({ j \in C18_Bars(r) : j <= i }) = k

\* the k-th of the fields the delimiters cut r into
C18_Field(r, k) == SubSeq(r, C18_Bar(r, k - 1) + 1, C18_Bar(r, k) - 1)

C18_Has(field, token) == \E i \in DOMAIN field : field[i] = token

\* C18: for the trimmed answer r and the message m, analyzeMessage returns a
\* statement if r is exactly 發言; otherwise, if the first field of r is 任務
\* and r has at least three fields, a task whose priority is high if the third
\* field contains 高, else low if it contains 低, else normal, and whose
\* description is the second field, or m when that field is empty; in every
\* other case, two fields after 任務 included, a statement
C18_ParsesAsSpecified ==
  ret # NoRet /\ arg.response.ok =>
    LET r == C18_Trimmed(arg.response.content)
        m == arg.message
    IN IF r = <<"fayan">> THEN ret.type = "speech"
       ELSE IF C18_Field(r, 1) = <<"renwu">> /\ Cardinality(C18_Bars(r)) >= 2
         THEN /\ ret.type = "task"
              /\ ret.priority = IF C18_Has(C18_Field(r, 3), "gao") THEN "high"
                                ELSE IF C18_Has(C18_Field(r, 3), "di") THEN "low"
                                ELSE "normal"
              /\ ret.taskDescription = IF C18_Field(r, 2) = << >> THEN m
                                       ELSE C18_Field(r, 2)
       ELSE ret.type = "speech"

\* '任務|報告|高' gives a task of priority high with the description 報告
C18_Witness ==
  /\ arg.response = [ok |-> TRUE, content |-> <<"renwu", "|", "baogao", "|", "gao">>]
  /\ ret = [type |-> "task", taskDescription |-> <<"baogao">>, priority |-> "high"]

\* ---- C19
\* the category a qualifying message is recorded under
C19_Category(e) ==
  IF IsOther(e) THEN "messenger" ELSE isChairmanOrDelegate(DisplayName(e.userId)).type

\* row is the record of event e: its group, its speaker, its (trimmed) text
C19_RowOf(row, e) ==
  /\ row.group_id = e.groupId
  /\ row.speaker_name = DisplayName(e.userId)
  /\ row.speaker_type = C19_Category(e)
  /\ row.message_content = Trim(e.text)

\* the handlers of qualifying messages that have finished
C19_FinishedQualifying == { p \in Procs : pc[p] = "done" /\ C11_Qualifies(event[p]) }

\* C19: when every external call succeeds, the rows in the store (empty when
\* the request arrived) correspond one to one to the qualifying messages
\* whose handlers have finished, each row with the group, speaker and text of
\* its own message, at every point of every interleaving; so once all
\* handlers have finished there is exactly one row for each qualifying
\* message and none for any other event
C19_OneRowPerQualifying ==
  (\E p \in Procs : pc[p] # "idle") =>
    /\ Len(store) = Cardinality(C19_FinishedQualifying)
    /\ \E f \in [C19_FinishedQualifying -> DOMAIN store] :
         /\ \A p, q \in C19_FinishedQualifying : p # q => f[p] # f[q]
         /\ \A p \in C19_FinishedQualifying : C19_RowOf(store[f[p]], event[p])

\* the same text from two speakers in two groups, the second event's row
\* written first
C19_Witness ==
  /\ \A p \in Procs : Settled(p)
  /\ event[1] = GroupText(RelayText, "G1", "U3")
  /\ event[2] = GroupText(RelayText, "G2", "U2")
  /\ Len(store) = 2
  /\ C19_RowOf(store[1], event[2])
  /\ C19_RowOf(store[2], event[1])

\* ---- C20
\* the category the display name alone gives
C20_NameCategory(e) ==
  IF C13_Principal(DisplayName(e.userId)) THEN "chairman"
  ELSE IF C13_Delegate(DisplayName(e.userId)) THEN "delegate" ELSE "other"

\* the category and the prompt handleEvent has to use for event e
C20_Assigned(e, category, prompt) ==
  IF C20_NameCategory(e) = "other"
    THEN HasRelayKeyword(e) /\ category = "messenger" /\ prompt = "delegate_prompt"
  ELSE /\ category = C20_NameCategory(e)
       /\ prompt = IF category = "chairman" THEN "chairman_prompt" ELSE "delegate_prompt"

\* C20: the category of a record comes from the sender's display name first
\* and from the relay path only for names classified 'other': a message of the
\* chairman or of a delegate is extracted with its own category's prompt and
\* recorded under its own category even when its text has a relay keyword, and
\* a record is a relay's only if the name matched no alias and the text has a
\* relay keyword
C20_NameBeforeRelay ==
  [][\A p \in Procs :
       /\ pc[p] = "getProfile" /\ pc'[p] = "classifier"
            => C20_Assigned(event[p], local'[p].speakerInfo.type, local'[p].prompt)
       /\ pc[p] = "recordMessage" /\ Stepped(p) /\ Len(store') > Len(store)
            => C20_Assigned(event[p], NewestRow.speaker_type, local[p].prompt)]_vars

\* '葛董說開會' sent by a delegate is stored as the delegate's, not as a relay
C20_Witness ==
  \E i \in DOMAIN store :
    /\ store[i].speaker_name = <<"caiyiying", " ", "tezhu">>
    /\ containsChairmanKeywords(store[i].message_content)
    /\ store[i].speaker_type = "delegate"
    /\ store[i].speaker_role = "dailiren"

====
